---------------------------- MODULE Spec2Model ----------------------------
(***************************************************************************)
(* A model of 2l_app.py: the batch pipeline that fetches the PDF of every  *)
(* link of an uploaded CSV, tags it with pattern-matching heuristics, asks *)
(* a chat model for the six-point "2l" summary and collects one row per    *)
(* link.                                                                   *)
(*                                                                         *)
(* A Python str is a sequence of one-character strings, so that slicing,   *)
(* splitting, trimming and pattern matching are computed character by      *)
(* character.                                                              *)
(***************************************************************************)
EXTENDS Integers, Sequences, FiniteSets, TLC

VARIABLES
    pc,         \* where the script is: "upload", "button", "loop", "done", "error", or "call"/"return" of a single function
    df_links,   \* the uploaded table: [columns |-> set of names, rows |-> sequence of [column -> str]]
    bound,      \* the names the script has assigned so far among "output", "df_result"
    output,     \* the list of result rows built by the loop
    df_result,  \* the rows of the final data frame
    ui,         \* what the page shows, in order: "error", "success", "dataframe", "download_button"
    i,          \* the position in df_links of the row the loop handles next
    log,        \* the calls made by the loop, in order: [op |-> name, row |-> index]
    fetched,    \* per processed row, what the fetch did: [ok |-> BOOLEAN, text |-> returned str]
    sent,       \* the requests handed to openai.ChatCompletion.create, in order
    replies,    \* per summarized row: [row |-> index, ok |-> BOOLEAN, text |-> str returned by generate_2l_format]
    arg,        \* the argument of the function under test (single-function specifications)
    ret         \* its return value

vars == <<pc, df_links, bound, output, df_result, ui, i, log, fetched, sent, replies, arg, ret>>

-----------------------------------------------------------------------------
(* Characters and the str methods the program uses.                        *)

LowerLetters == <<"a", "b", "c", "d", "e", "f", "g", "h", "i", "j", "k", "l", "m",
                  "n", "o", "p", "q", "r", "s", "t", "u", "v", "w", "x", "y", "z">>

UpperLetters == <<"A", "B", "C", "D", "E", "F", "G", "H", "I", "J", "K", "L", "M",
                  "N", "O", "P", "Q", "R", "S", "T", "U", "V", "W", "X", "Y", "Z">>

DigitChars == <<"0", "1", "2", "3", "4", "5", "6", "7", "8", "9">>

Range(s) == {s[ix] : ix \in DOMAIN s}

Letters == Range(LowerLetters) \cup Range(UpperLetters)

Digits == Range(DigitChars)

\* What str.strip() removes and what \s matches (the ASCII part).
Whitespace == {" ", "\t", "\n", "\r", "\f"}

SetMin(S) == CHOOSE x \in S : \A y \in S : x <= y

SetMax(S) == CHOOSE x \in S : \A y \in S : y <= x

IndexIn(s, c) == CHOOSE ix \in DOMAIN s : s[ix] = c

\* the lower-case letter of each upper-case letter, and the reverse
LowerOf == [c \in Range(UpperLetters) |-> LowerLetters[IndexIn(UpperLetters, c)]]

UpperOf == [c \in Range(LowerLetters) |-> UpperLetters[IndexIn(LowerLetters, c)]]

\* str.lower() and str.upper() on one character.
LowerChar(c) == IF c \in DOMAIN LowerOf THEN LowerOf[c] ELSE c

UpperChar(c) == IF c \in DOMAIN UpperOf THEN UpperOf[c] ELSE c

\* s.lower()
lower(s) == [ix \in 1..Len(s) |-> LowerChar(s[ix])]

\* s[:n]
Slice(s, n) == SubSeq(s, 1, IF Len(s) < n THEN Len(s) ELSE n)

\* s.startswith(p)
startswith(s, p) == Len(p) <= Len(s) /\ SubSeq(s, 1, Len(p)) = p

\* whether p occurs in s at index ix
MatchAt(s, p, ix) ==
    /\ ix >= 1
    /\ ix + Len(p) - 1 <= Len(s)
    /\ \A d \in 1..Len(p) : s[ix + d - 1] = p[d]

\* p in s
Contains(s, p) == \E ix \in 1..(Len(s) + 1) : MatchAt(s, p, ix)

\* s.strip()
strip(s) ==
    LET keep == {ix \in 1..Len(s) : s[ix] \notin Whitespace}
    IN  IF keep = {} THEN <<>> ELSE SubSeq(s, SetMin(keep), SetMax(keep))

\* s.partition(c)[2]: what follows the first c, empty when there is none
partition2(s, c) ==
    LET at == {ix \in 1..Len(s) : s[ix] = c}
    IN  IF at = {} THEN <<>> ELSE SubSeq(s, SetMin(at) + 1, Len(s))

\* s.split(c)
RECURSIVE split(_, _)
split(s, c) ==
    LET at == {ix \in 1..Len(s) : s[ix] = c}
    IN  IF at = {} THEN <<s>>
        ELSE <<SubSeq(s, 1, SetMin(at) - 1)>> \o split(SubSeq(s, SetMin(at) + 1, Len(s)), c)

\* the concatenation of a sequence of strs
RECURSIVE Concat(_)
Concat(ss) == IF ss = <<>> THEN <<>> ELSE Head(ss) \o Concat(Tail(ss))

\* all sequences of at most n elements of S
SeqsUpTo(S, n) == UNION {[1..k -> S] : k \in 0..n}

-----------------------------------------------------------------------------
(* parse_2l                                                                *)

\* the literal prefixes "1." .. "6." of the elif chain
Prefix(k) == <<DigitChars[k + 1], ".">>

\* One pass of the loop body: the first prefix the trimmed line starts with
\* overwrites its field.
ParseLineFirstWins(values, line) ==
    LET l == strip(line)
        hit == {k \in 1..6 : startswith(l, Prefix(k))}
    IN  IF hit = {} \/ values[SetMin(hit)] # <<>> THEN values
        ELSE [values EXCEPT ![SetMin(hit)] = strip(partition2(l, "."))]

ParseLine(values, line) ==
    LET l == strip(line)
    IN  IF startswith(l, Prefix(1)) THEN [values EXCEPT ![1] = strip(partition2(l, "."))]
        ELSE IF startswith(l, Prefix(2)) THEN [values EXCEPT ![2] = strip(partition2(l, "."))]
        ELSE IF startswith(l, Prefix(3)) THEN [values EXCEPT ![3] = strip(partition2(l, "."))]
        ELSE IF startswith(l, Prefix(4)) THEN [values EXCEPT ![4] = strip(partition2(l, "."))]
        ELSE IF startswith(l, Prefix(5)) THEN [values EXCEPT ![5] = strip(partition2(l, "."))]
        ELSE IF startswith(l, Prefix(6)) THEN [values EXCEPT ![6] = strip(partition2(l, "."))]
        ELSE values

RECURSIVE ParseLines(_, _)
ParseLines(values, lines) ==
    IF lines = <<>> THEN values
    ELSE ParseLines(ParseLine(values, Head(lines)), Tail(lines))

parse_2l(text) == ParseLines([k \in 1..6 |-> <<>>], split(text, "\n"))

-----------------------------------------------------------------------------
(* The metadata extractors.                                                *)

\* "Unknown", "General", "Error": the sentinel cells
Unknown == <<"U", "n", "k", "n", "o", "w", "n">>

General == <<"G", "e", "n", "e", "r", "a", "l">>

Error == <<"E", "r", "r", "o", "r">>

\* the "Error: " that starts the value returned for a caught exception
ErrorMark == <<"E", "r", "r", "o", "r", ":", " ">>

\* s.title(): a letter is upper-cased after a non-letter and lower-cased after a letter
title(s) ==
    [ix \in 1..Len(s) |->
        IF s[ix] \notin Letters THEN s[ix]
        ELSE IF ix = 1 \/ s[ix - 1] \notin Letters THEN UpperChar(s[ix])
        ELSE LowerChar(s[ix])]

\* [A-Z\s&.,] under (?ix)
CompanyClass == Letters \cup Whitespace \cup {"&", ".", ","}

\* (LIMITED|LTD|INDUSTRIES|CORPORATION), tried in this order
CompanySuffixes == <<
    <<"L", "I", "M", "I", "T", "E", "D">>,
    <<"L", "T", "D">>,
    <<"I", "N", "D", "U", "S", "T", "R", "I", "E", "S">>,
    <<"C", "O", "R", "P", "O", "R", "A", "T", "I", "O", "N">>>>

\* The lengths n >= 4 for which ([A-Z][A-Z\s&.,]{n})\s+ matches at s: a letter
\* at s, n class characters after it, and a whitespace character next.
CompanyLengths(text, s) ==
    {n \in 4..(Len(text) - s - 1) :
        /\ text[s + n + 1] \in Whitespace
        /\ \A j \in (s + 1)..(s + n) : text[j] \in CompanyClass}

\* The end of the match that starts at s. {4,} is greedy, so the longest
\* length is taken; \s+ then takes the whitespace that follows, and the
\* optional suffix is taken when it stands right there.
CompanyMatchEnd(text, s) ==
    LET n == SetMax(CompanyLengths(text, s))
        ws == {q \in (s + n + 1)..Len(text) : \A j \in (s + n + 1)..q : text[j] \in Whitespace}
        e == SetMax(ws)
        hit == {j \in 1..Len(CompanySuffixes) :
                   MatchAt([ix \in 1..Len(text) |-> UpperChar(text[ix])], CompanySuffixes[j], e + 1)}
    IN  IF hit = {} THEN e ELSE e + Len(CompanySuffixes[SetMin(hit)])

\* where re.search finds the pattern: the leftmost index from s on at which
\* it matches, 0 when there is none
RECURSIVE CompanySearch(_, _)
CompanySearch(text, s) ==
    IF s > Len(text) THEN 0
    ELSE IF text[s] \in Letters /\ CompanyLengths(text, s) # {} THEN s
    ELSE CompanySearch(text, s + 1)

\* match.group(0).strip().title() if match else "Unknown"
extract_company(text) ==
    LET s == CompanySearch(text, 1)
    IN  IF s = 0 THEN Unknown
        ELSE title(strip(SubSeq(text, s, CompanyMatchEnd(text, s))))

\* the first index >= p of text that holds no whitespace (Len(text) + 1 when none)
SkipWhitespace(text, p) ==
    SetMin({q \in p..(Len(text) + 1) : q = Len(text) + 1 \/ text[q] \notin Whitespace})

\* [A-Z0-9]
SymbolClass == Range(UpperLetters) \cup Digits

\* the index where ([A-Z0-9]{3,10}) is tried after BSE\s*[:\-]?\s* matched from ix
SymbolStart(text, ix) ==
    LET p1 == SkipWhitespace(text, ix + 3)
        p2 == IF p1 <= Len(text) /\ text[p1] \in {":", "-"} THEN p1 + 1 ELSE p1
    IN  SkipWhitespace(text, p2)

\* the length of the run of [A-Z0-9] that starts at p
SymbolRun(text, p) ==
    SetMax({n \in 0..(Len(text) - p + 1) : \A j \in p..(p + n - 1) : text[j] \in SymbolClass})

extract_symbol(link, text) ==
    LET starts == {ix \in 1..Len(text) :
                      /\ MatchAt(text, <<"B", "S", "E">>, ix)
                      /\ SymbolRun(text, SymbolStart(text, ix)) >= 3}
    IN  IF starts = {} THEN Unknown
        ELSE LET p == SymbolStart(text, SetMin(starts))
                 n == SymbolRun(text, p)
             IN  SubSeq(text, p, p + (IF n > 10 THEN 10 ELSE n) - 1)

\* the dict with Steel declared where Bank is, and Bank where Steel is
keywordsSteelBeforeBank == <<
    [k |-> <<"P", "h", "a", "r", "m", "a">>,
     v |-> <<"H", "e", "a", "l", "t", "h", "c", "a", "r", "e">>],
    [k |-> <<"C", "h", "e", "m", "i", "c", "a", "l">>,
     v |-> <<"S", "p", "e", "c", "i", "a", "l", "t", "y", " ", "C", "h", "e", "m", "i", "c", "a", "l", "s">>],
    [k |-> <<"S", "t", "e", "e", "l">>,
     v |-> <<"M", "e", "t", "a", "l", "s">>],
    [k |-> <<"P", "o", "w", "e", "r">>,
     v |-> <<"E", "n", "e", "r", "g", "y">>],
    [k |-> <<"B", "a", "n", "k">>,
     v |-> <<"F", "i", "n", "a", "n", "c", "i", "a", "l", "s">>],
    [k |-> <<"A", "u", "t", "o">>,
     v |-> <<"A", "u", "t", "o", "m", "o", "b", "i", "l", "e">>],
    [k |-> <<"I", "T">>,
     v |-> <<"T", "e", "c", "h", "n", "o", "l", "o", "g", "y">>],
    [k |-> <<"S", "o", "f", "t", "w", "a", "r", "e">>,
     v |-> <<"T", "e", "c", "h", "n", "o", "l", "o", "g", "y">>],
    [k |-> <<"R", "e", "t", "a", "i", "l">>,
     v |-> <<"C", "o", "n", "s", "u", "m", "e", "r">>],
    [k |-> <<"F", "M", "C", "G">>,
     v |-> <<"C", "o", "n", "s", "u", "m", "e", "r", " ", "S", "t", "a", "p", "l", "e", "s">>]>>

\* the dict of guess_sector, in its insertion order
keywords == <<
    [k |-> <<"P", "h", "a", "r", "m", "a">>,
     v |-> <<"H", "e", "a", "l", "t", "h", "c", "a", "r", "e">>],
    [k |-> <<"C", "h", "e", "m", "i", "c", "a", "l">>,
     v |-> <<"S", "p", "e", "c", "i", "a", "l", "t", "y", " ", "C", "h", "e", "m", "i", "c", "a", "l", "s">>],
    [k |-> <<"B", "a", "n", "k">>,
     v |-> <<"F", "i", "n", "a", "n", "c", "i", "a", "l", "s">>],
    [k |-> <<"P", "o", "w", "e", "r">>,
     v |-> <<"E", "n", "e", "r", "g", "y">>],
    [k |-> <<"S", "t", "e", "e", "l">>,
     v |-> <<"M", "e", "t", "a", "l", "s">>],
    [k |-> <<"A", "u", "t", "o">>,
     v |-> <<"A", "u", "t", "o", "m", "o", "b", "i", "l", "e">>],
    [k |-> <<"I", "T">>,
     v |-> <<"T", "e", "c", "h", "n", "o", "l", "o", "g", "y">>],
    [k |-> <<"S", "o", "f", "t", "w", "a", "r", "e">>,
     v |-> <<"T", "e", "c", "h", "n", "o", "l", "o", "g", "y">>],
    [k |-> <<"R", "e", "t", "a", "i", "l">>,
     v |-> <<"C", "o", "n", "s", "u", "m", "e", "r">>],
    [k |-> <<"F", "M", "C", "G">>,
     v |-> <<"C", "o", "n", "s", "u", "m", "e", "r", " ", "S", "t", "a", "p", "l", "e", "s">>]>>

\* for k, v in keywords.items(): if k.lower() in text.lower(): return v
\* lowered is text.lower()
RECURSIVE ScanSector(_, _)
ScanSector(table, lowered) ==
    IF table = <<>> THEN Unknown
    ELSE IF Contains(lowered, lower(Head(table).k)) THEN Head(table).v
    ELSE ScanSector(Tail(table), lowered)

guess_sector(text) == ScanSector(keywords, lower(text))

\* the dict of detect_type, in its insertion order
types == <<
    [k |-> <<"e", "x", "p", "a", "n", "s", "i", "o", "n">>,
     v |-> <<"E", "x", "p", "a", "n", "s", "i", "o", "n">>],
    [k |-> <<"c", "a", "p", "e", "x">>,
     v |-> <<"C", "a", "p", "e", "x">>],
    [k |-> <<"d", "i", "v", "i", "d", "e", "n", "d">>,
     v |-> <<"D", "i", "v", "i", "d", "e", "n", "d">>],
    [k |-> <<"m", "e", "r", "g", "e", "r">>,
     v |-> <<"M", "&", "A">>],
    [k |-> <<"a", "c", "q", "u", "i", "s", "i", "t", "i", "o", "n">>,
     v |-> <<"M", "&", "A">>],
    [k |-> <<"o", "r", "d", "e", "r">>,
     v |-> <<"O", "r", "d", "e", "r", " ", "W", "i", "n">>],
    [k |-> <<"c", "o", "n", "t", "r", "a", "c", "t">>,
     v |-> <<"O", "r", "d", "e", "r", " ", "W", "i", "n">>],
    [k |-> <<"r", "e", "s", "u", "l", "t">>,
     v |-> <<"F", "i", "n", "a", "n", "c", "i", "a", "l", " ", "R", "e", "s", "u", "l", "t">>],
    [k |-> <<"p", "r", "o", "f", "i", "t">>,
     v |-> <<"F", "i", "n", "a", "n", "c", "i", "a", "l", " ", "R", "e", "s", "u", "l", "t">>],
    [k |-> <<"l", "o", "s", "s">>,
     v |-> <<"F", "i", "n", "a", "n", "c", "i", "a", "l", " ", "R", "e", "s", "u", "l", "t">>],
    [k |-> <<"p", "l", "a", "n", "t">>,
     v |-> <<"I", "n", "f", "r", "a", "/", "C", "a", "p", "a", "c", "i", "t", "y">>],
    [k |-> <<"b", "o", "n", "u", "s">>,
     v |-> <<"B", "o", "n", "u", "s", "/", "S", "p", "l", "i", "t">>],
    [k |-> <<"b", "u", "y", "b", "a", "c", "k">>,
     v |-> <<"B", "u", "y", "b", "a", "c", "k">>],
    [k |-> <<"j", "o", "i", "n", "t", " ", "v", "e", "n", "t", "u", "r", "e">>,
     v |-> <<"J", "V", "/", "P", "a", "r", "t", "n", "e", "r", "s", "h", "i", "p">>]>>

\* for k, v in types.items(): if k in text.lower(): return v
\* lowered is text.lower()
RECURSIVE ScanType(_, _)
ScanType(table, lowered) ==
    IF table = <<>> THEN General
    ELSE IF Contains(lowered, Head(table).k) THEN Head(table).v
    ELSE ScanType(Tail(table), lowered)

detect_type(text) == ScanType(types, lower(text))

\* [-/]
DateSeparators == {"-", "/"}

IsDigitAt(url, p) == p >= 1 /\ p <= Len(url) /\ url[p] \in Digits

\* the index after an optional separator at p
SkipSeparator(url, p) == IF p <= Len(url) /\ url[p] \in DateSeparators THEN p + 1 ELSE p

\* Where (\d{4})[-/]?(\d{2})[-/]?(\d{2}) matches from index ix: the indexes of
\* the month and of the day, or <<>> when it does not match there.
DateMatchAt(url, ix) ==
    LET pm == SkipSeparator(url, ix + 4)
        pd == SkipSeparator(url, pm + 2)
    IN  IF /\ \A j \in ix..(ix + 3) : IsDigitAt(url, j)
           /\ IsDigitAt(url, pm) /\ IsDigitAt(url, pm + 1)
           /\ IsDigitAt(url, pd) /\ IsDigitAt(url, pd + 1)
        THEN <<pm, pd>>
        ELSE <<>>

\* whether re.search finds the pattern in url
HasDatePattern(url) == \E ix \in 1..Len(url) : DateMatchAt(url, ix) # <<>>

\* today is what datetime.today().strftime("%Y-%m-%d") gives at the call; the
\* clock is read only when the pattern is not found
extract_date_from_url(url, today) ==
    LET starts == {ix \in 1..Len(url) : DateMatchAt(url, ix) # <<>>}
    IN  IF starts = {} THEN today
        ELSE LET ix == SetMin(starts)
                 at == DateMatchAt(url, ix)
             IN  SubSeq(url, ix, ix + 3) \o <<"-">> \o SubSeq(url, at[1], at[1] + 1)
                     \o <<"-">> \o SubSeq(url, at[2], at[2] + 1)

-----------------------------------------------------------------------------
(* fetch_pdf_text and generate_2l_format. What the network, the PDF        *)
(* library and the chat API do is an outcome record the environment        *)
(* chooses: ok with the page texts (the reply), or not ok with str(e) of   *)
(* the exception raised.                                                   *)

\* try: ... text += page.get_text() ... return text / except: return f"Error: {e}"
fetch_pdf_text(url, net) ==
    IF net.ok THEN Concat(net.pages) ELSE ErrorMark \o net.exc

\* the 4000 of text[:4000]
PromptBudget == 4000

\* the lines of the f-string that precede {text[:4000]}
Instruction == <<
    "",
    "You are an expert equity research analyst. Given the following content from a company PDF, extract and present it in this custom format called '2l':",
    "",
    "1. Key pointers and very important",
    "2. Summarize this (if possible, add % with this)",
    "3. A 2-3 line final summary (if possible, add % with this)",
    "4. Explain to a 5-year-old",
    "5. In one word (a proper heading with process)",
    "6. Is it good or bad for the company (in 2 lines)",
    "",
    "Only output the format. Do not explain.",
    "",
    "Here is the content:">>

\* the f-string with {text} where {text[:4000]} is
PromptUntruncated(text) == [head |-> Instruction, content |-> text, tail |-> "\n"]

\* the f-string: the instruction, text[:4000] and the closing line break
Prompt(text) == [head |-> Instruction, content |-> Slice(text, PromptBudget), tail |-> "\n"]

\* the arguments of openai.ChatCompletion.create
Request(text) ==
    [model |-> "gpt-4o",
     messages |-> <<[role |-> "user", content |-> Prompt(text)]>>,
     temperature |-> "0.4"]

\* return response['choices'][0]['message']['content'] / except: return f"Error: {e}"
generate_2l_format(text, api) ==
    IF api.ok THEN api.content ELSE ErrorMark \o api.exc

-----------------------------------------------------------------------------
(* The script: the upload, the column test, the button and the batch loop. *)

\* the failure test without its "not text"
IsFailureNoEmptyTest(text) == startswith(lower(text), <<"e", "r", "r", "o", "r">>)

\* not text or text.lower().startswith("error")
IsFailure(text) == text = <<>> \/ startswith(lower(text), <<"e", "r", "r", "o", "r">>)

\* [link, "Unknown", "Unknown", "Unknown", "Error", "Error"] + ["Error"]*6
SentinelRow(link) ==
    <<link, Unknown, Unknown, Unknown, Error, Error>> \o [k \in 1..6 |-> Error]

\* [link, symbol, company, sector, date, ann_type] + fields
SuccessRow(link, text, today, gpt_response) ==
    <<link, extract_symbol(link, text), extract_company(text), guess_sector(text),
      extract_date_from_url(link, today), detect_type(text)>> \o parse_2l(gpt_response)

Call(op, row) == [op |-> op, row |-> row]

\* the calls of one pass through the failure branch, in order
FailureCalls(row) == <<Call("fetch_pdf_text", row), Call("output.append", row)>>

\* the calls of one pass through the success branch, in order
SuccessCalls(row) ==
    <<Call("fetch_pdf_text", row), Call("extract_date_from_url", row),
      Call("extract_company", row), Call("guess_sector", row),
      Call("extract_symbol", row), Call("detect_type", row),
      Call("generate_2l_format", row), Call("parse_2l", row),
      Call("output.append", row), Call("time.sleep", row)>>

\* the values datetime.today().strftime("%Y-%m-%d") takes in the runs checked
Todays == {<<"2", "0", "2", "6", "-", "1", "1", "-", "0", "3">>,
           <<"2", "0", "2", "4", "-", "0", "2", "-", "2", "9">>}

\* what the clock can answer in extract_date_from_url(url): it is not read
\* when url holds the pattern
ClockReadings(url) == IF HasDatePattern(url) THEN {<<>>} ELSE Todays

\* the rows a CSV of at most MaxRows lines can hold
MaxRows == 2

Links == {
    \* "http://x/2023-07-15/a.pdf"
    <<"h", "t", "t", "p", ":", "/", "/", "x", "/", "2", "0", "2", "3", "-", "0", "7", "-", "1", "5", "/", "a", ".", "p", "d", "f">>,
    \* "http://x/b.pdf"
    <<"h", "t", "t", "p", ":", "/", "/", "x", "/", "b", ".", "p", "d", "f">>}

\* a table of one column
Table(column, cells) ==
    [columns |-> {column}, rows |-> [r \in 1..Len(cells) |-> [c \in {column} |-> cells[r]]]]

Tables == {Table(column, cells) : column \in {"link", "url"}, cells \in SeqsUpTo(Links, MaxRows)}

FetchOutcomes == {
    \* requests.get or fitz.open raises
    [ok |-> FALSE, pages |-> <<>>,
     exc |-> <<"t", "i", "m", "e", "d", " ", "o", "u", "t">>],
    \* a PDF without extractable text
    [ok |-> TRUE, pages |-> <<<<>>>>,
     exc |-> <<>>],
    \* a PDF whose text starts with the word Errors
    [ok |-> TRUE, pages |-> <<<<"E", "r", "r", "o", "r", "s", " ", "a", "n", "d", " ", "o", "m", "i", "s", "s", "i", "o", "n", "s", ".", " ">>, <<"N", "e", "t", " ", "p", "r", "o", "f", "i", "t", " ", "r", "o", "s", "e">>>>,
     exc |-> <<>>],
    \* a filing of two pages
    [ok |-> TRUE, pages |-> <<<<"T", "a", "t", "a", " ", "S", "t", "e", "e", "l", " ", "L", "i", "m", "i", "t", "e", "d", "\n", "B", "S", "E", ":", " ", "T", "S", "L", "5", "0", "0", " ">>, <<"d", "i", "v", "i", "d", "e", "n", "d", ",", " ", "B", "a", "n", "k">>>>,
     exc |-> <<>>],
    \* a PDF no extractor recognises anything in
    [ok |-> TRUE, pages |-> <<<<"h", "e", "l", "l", "o">>>>,
     exc |-> <<>>]}

ApiOutcomes == {
    \* the six numbered lines
    [ok |-> TRUE, content |-> <<"1", ".", " ", "A", "\n", "2", ".", " ", "B", "\n", "3", ".", " ", "C", "\n", "4", ".", " ", "D", "\n", "5", ".", " ", "E", "\n", "6", ".", " ", "F">>,
     exc |-> <<>>],
    \* a reply with a preamble, out of order, one number twice
    [ok |-> TRUE, content |-> <<"S", "u", "r", "e", ":", "\n", " ", "6", ".", " ", "b", "a", "d", "\n", "1", ".", " ", "A", "\n", "1", ".", " ", "B">>,
     exc |-> <<>>],
    \* an API error
    [ok |-> FALSE, content |-> <<>>,
     exc |-> <<"R", "a", "t", "e", " ", "l", "i", "m", "i", "t", " ", "r", "e", "a", "c", "h", "e", "d">>],
    \* an APIError that quotes a response body of two lines
    [ok |-> FALSE, content |-> <<>>,
     exc |-> <<"H", "T", "T", "P", " ", "c", "o", "d", "e", " ", "5", "0", "2", " ", "f", "r", "o", "m", " ", "A", "P", "I", " ", "(", "B", "a", "d", " ", "g", "a", "t", "e", "w", "a", "y", "\n", "1", ".", " ", "R", "e", "t", "r", "y", " ", "l", "a", "t", "e", "r", ")">>]}

Init ==
    /\ pc = "upload"
    /\ df_links = [columns |-> {}, rows |-> <<>>]
    /\ bound = {}
    /\ output = <<>>
    /\ df_result = <<>>
    /\ ui = <<>>
    /\ i = 1
    /\ log = <<>>
    /\ fetched = <<>>
    /\ sent = <<>>
    /\ replies = <<>>
    /\ arg = <<>>
    /\ ret = <<>>

\* the script after an upload without the column test
UploadNoColumnTest ==
    /\ pc = "upload"
    /\ \E table \in Tables : df_links' = table
    /\ pc' = "button"
    /\ UNCHANGED <<bound, output, df_result, ui, i, log, fetched, sent, replies, arg, ret>>

\* The script runs after a file was uploaded: read_csv, then the column test;
\* without the column st.error is shown and nothing else happens.
Upload ==
    /\ pc = "upload"
    /\ \E table \in Tables :
          /\ df_links' = table
          /\ IF "link" \notin table.columns
             THEN ui' = Append(ui, "error") /\ pc' = "error"
             ELSE ui' = ui /\ pc' = "button"
    /\ UNCHANGED <<bound, output, df_result, i, log, fetched, sent, replies, arg, ret>>

\* The button is clicked: output = [] and the loop starts.
ClickButton ==
    /\ pc = "button"
    /\ output' = <<>>
    /\ bound' = bound \cup {"output"}
    /\ i' = 1
    /\ pc' = "loop"
    /\ UNCHANGED <<df_links, df_result, ui, log, fetched, sent, replies, arg, ret>>

\* the failure branch with "continue" and no row appended
RowFailedNoAppend(link, net) ==
    LET text == fetch_pdf_text(link, net)
    IN  /\ IsFailure(text)
        /\ log' = Append(log, Call("fetch_pdf_text", i))
        /\ fetched' = Append(fetched, [ok |-> net.ok, text |-> text])
        /\ UNCHANGED <<output, sent, replies>>

\* the failure branch of the loop body: the sentinel row, then continue
RowFailed(link, net) ==
    LET text == fetch_pdf_text(link, net)
    IN  /\ IsFailure(text)
        /\ output' = Append(output, SentinelRow(link))
        /\ log' = log \o FailureCalls(i)
        /\ fetched' = Append(fetched, [ok |-> net.ok, text |-> text])
        /\ UNCHANGED <<sent, replies>>

\* the rest of the loop body: taggers, summary, parse, append, sleep
RowSucceeded(link, net) ==
    LET text == fetch_pdf_text(link, net)
    IN  /\ ~IsFailure(text)
        /\ \E api \in ApiOutcomes, today \in ClockReadings(link) :
              LET gpt_response == generate_2l_format(text, api)
              IN  /\ output' = Append(output, SuccessRow(link, text, today, gpt_response))
                  /\ sent' = Append(sent, Request(text))
                  /\ replies' = Append(replies, [row |-> i, ok |-> api.ok, text |-> gpt_response])
        /\ log' = log \o SuccessCalls(i)
        /\ fetched' = Append(fetched, [ok |-> net.ok, text |-> text])

\* one pass of "for i, row in df_links.iterrows()"
ProcessRow ==
    /\ pc = "loop"
    /\ i <= Len(df_links.rows)
    /\ \E net \in FetchOutcomes :
          \/ RowFailed(df_links.rows[i]["link"], net)
          \/ RowSucceeded(df_links.rows[i]["link"], net)
    /\ i' = i + 1
    /\ UNCHANGED <<pc, df_links, bound, df_result, ui, arg, ret>>

\* after the loop: the data frame, st.success, the table and the download
Finish ==
    /\ pc = "loop"
    /\ i > Len(df_links.rows)
    /\ df_result' = output
    /\ bound' = bound \cup {"df_result"}
    /\ ui' = ui \o <<"success", "dataframe", "download_button">>
    /\ pc' = "done"
    /\ UNCHANGED <<df_links, output, i, log, fetched, sent, replies, arg, ret>>

Next == Upload \/ ClickButton \/ ProcessRow \/ Finish

Spec == Init /\ [][Next]_vars

-----------------------------------------------------------------------------
(* The idle values of the variables a specification does not use.          *)

BatchIdle ==
    /\ df_links = [columns |-> {}, rows |-> <<>>]
    /\ bound = {}
    /\ output = <<>>
    /\ df_result = <<>>
    /\ ui = <<>>
    /\ i = 1
    /\ log = <<>>
    /\ fetched = <<>>
    /\ sent = <<>>
    /\ replies = <<>>

BatchVars == <<df_links, bound, output, df_result, ui, i, log, fetched, sent, replies>>

-----------------------------------------------------------------------------
(* SpecParse: parse_2l applied to every response text built from at most   *)
(* MaxPieces pieces, and to the three responses the specification quotes.  *)

MaxPieces == 4

ParsePieces == {<<"1", ".">>, <<"3", ".">>, <<"6", ".">>, <<" ">>, <<"\n">>,
                <<"A">>, <<"B", ".">>, <<"1">>, <<"\t">>}

ParseExamples == {
    \* "1. A\n2. B\n3. C\n4. D\n5. E\n6. F"
    <<"1", ".", " ", "A", "\n", "2", ".", " ", "B", "\n", "3", ".", " ", "C", "\n",
      "4", ".", " ", "D", "\n", "5", ".", " ", "E", "\n", "6", ".", " ", "F">>,
    \* "1. A\n3. C"
    <<"1", ".", " ", "A", "\n", "3", ".", " ", "C">>,
    \* "1. A\n1. B"
    <<"1", ".", " ", "A", "\n", "1", ".", " ", "B">>,
    \* " 5.  x.y \r\n6.\n4.1\n"
    <<" ", "5", ".", " ", " ", "x", ".", "y", " ", "\r", "\n", "6", ".", "\n", "4", ".", "1", "\n">>}

ParseInputs == {Concat(ps) : ps \in SeqsUpTo(ParsePieces, MaxPieces)} \cup ParseExamples

InitParse ==
    /\ pc = "call"
    /\ arg \in ParseInputs
    /\ ret = <<>>
    /\ BatchIdle

CallParse ==
    /\ pc = "call"
    /\ ret' = parse_2l(arg)
    /\ pc' = "return"
    /\ UNCHANGED <<arg, BatchVars>>

NextParse == CallParse

SpecParse == InitParse /\ [][NextParse]_vars

-----------------------------------------------------------------------------
(* The claim about parse_2l, checked under SpecParse.                      *)

\* the lines of text whose trimmed form starts with "k."
LinesWithPrefix(text, k) ==
    {j \in 1..Len(split(text, "\n")) : startswith(strip(split(text, "\n")[j]), Prefix(k))}

\* the trimmed text after the first "." of the last such line, "" without one
ExpectedField(text, k) ==
    IF LinesWithPrefix(text, k) = {} THEN <<>>
    ELSE LET l == strip(split(text, "\n")[SetMax(LinesWithPrefix(text, k))])
         IN  strip(SubSeq(l, 3, Len(l)))

(* C6: parse_2l returns six fields; field k is the trimmed text after the  *)
(* first "." of the last line whose trimmed form starts with "k.", and is  *)
(* empty when no line starts with it: "1. A\n2. B\n3. C\n4. D\n5. E\n6. F" *)
(* gives [A,B,C,D,E,F], "1. A\n3. C" gives [A,"",C,"","",""] and           *)
(* "1. A\n1. B" gives [B,"","","","",""].                                  *)
C6_ParseByPrefixLastWins ==
    pc = "return" =>
        /\ DOMAIN ret = 1..6
        /\ \A k \in 1..6 : ret[k] = ExpectedField(arg, k)
        /\ arg = <<"1", ".", " ", "A", "\n", "2", ".", " ", "B", "\n", "3", ".", " ", "C", "\n", "4", ".", " ", "D", "\n", "5", ".", " ", "E", "\n", "6", ".", " ", "F">>
             => ret = <<<<"A">>, <<"B">>, <<"C">>, <<"D">>, <<"E">>, <<"F">>>>
        /\ arg = <<"1", ".", " ", "A", "\n", "3", ".", " ", "C">>
             => ret = <<<<"A">>, <<>>, <<"C">>, <<>>, <<>>, <<>>>>
        /\ arg = <<"1", ".", " ", "A", "\n", "1", ".", " ", "B">>
             => ret = <<<<"B">>, <<>>, <<>>, <<>>, <<>>, <<>>>>

\* "1. A\n1. B" was parsed: prefix 1 on two lines, the others on none
C6_Witness ==
    /\ pc = "return"
    /\ arg = <<"1", ".", " ", "A", "\n", "1", ".", " ", "B">>
    /\ Cardinality(LinesWithPrefix(arg, 1)) = 2
    /\ ret[1] = <<"B">>
    /\ \A k \in 2..6 : LinesWithPrefix(arg, k) = {} /\ ret[k] = <<>>

-----------------------------------------------------------------------------
(* SpecSector: guess_sector applied to every text built from at most       *)
(* MaxWords pieces: the keywords in several letter cases, fragments that   *)
(* make up a keyword only when joined, and filler.                         *)

MaxWords == 3

SectorPieces == {<<"B", "a", "n", "k">>,
                 <<"S", "T", "E", "E", "L">>,
                 <<"p", "h", "a", "r", "m", "a">>,
                 <<"C", "h", "e", "m", "i", "c", "a", "l">>,
                 <<"i", "t">>,
                 <<"A", "u">>,
                 <<"t", "o">>,
                 <<" ">>,
                 <<"x">>,
                 <<"F", "M", "C", "G">>,
                 <<"p", "o", "w", "e", "r">>,
                 <<"R", "e", "t", "a", "i", "l">>,
                 <<"S", "O", "F", "T", "W", "A", "R", "E">>}

SectorInputs == {Concat(ps) : ps \in SeqsUpTo(SectorPieces, MaxWords)}

InitSector ==
    /\ pc = "call"
    /\ arg \in SectorInputs
    /\ ret = <<>>
    /\ BatchIdle

CallSector ==
    /\ pc = "call"
    /\ ret' = guess_sector(arg)
    /\ pc' = "return"
    /\ UNCHANGED <<arg, BatchVars>>

NextSector == CallSector

SpecSector == InitSector /\ [][NextSector]_vars

-----------------------------------------------------------------------------
(* The claim about guess_sector, checked under SpecSector.                 *)

\* the declared order and the sector of each keyword
C7_Declared == <<
    <<<<"P", "h", "a", "r", "m", "a">>,
      <<"H", "e", "a", "l", "t", "h", "c", "a", "r", "e">>>>,
    <<<<"C", "h", "e", "m", "i", "c", "a", "l">>,
      <<"S", "p", "e", "c", "i", "a", "l", "t", "y", " ", "C", "h", "e", "m", "i", "c", "a", "l", "s">>>>,
    <<<<"B", "a", "n", "k">>,
      <<"F", "i", "n", "a", "n", "c", "i", "a", "l", "s">>>>,
    <<<<"P", "o", "w", "e", "r">>,
      <<"E", "n", "e", "r", "g", "y">>>>,
    <<<<"S", "t", "e", "e", "l">>,
      <<"M", "e", "t", "a", "l", "s">>>>,
    <<<<"A", "u", "t", "o">>,
      <<"A", "u", "t", "o", "m", "o", "b", "i", "l", "e">>>>,
    <<<<"I", "T">>,
      <<"T", "e", "c", "h", "n", "o", "l", "o", "g", "y">>>>,
    <<<<"S", "o", "f", "t", "w", "a", "r", "e">>,
      <<"T", "e", "c", "h", "n", "o", "l", "o", "g", "y">>>>,
    <<<<"R", "e", "t", "a", "i", "l">>,
      <<"C", "o", "n", "s", "u", "m", "e", "r">>>>,
    <<<<"F", "M", "C", "G">>,
      <<"C", "o", "n", "s", "u", "m", "e", "r", " ", "S", "t", "a", "p", "l", "e", "s">>>>>>

\* whether the j-th declared keyword occurs in text, letter case ignored
C7_Occurs(text, j) ==
    \E ix \in 1..Len(text) :
        \A d \in 1..Len(C7_Declared[j][1]) :
            /\ ix + d - 1 <= Len(text)
            /\ LowerChar(text[ix + d - 1]) = LowerChar(C7_Declared[j][1][d])

(* C7: guess_sector returns the sector of the first keyword, in the order  *)
(* Pharma, Chemical, Bank, Power, Steel, Auto, IT, Software, Retail, FMCG, *)
(* that occurs in the text as a case-insensitive substring, and "Unknown"  *)
(* if none occurs; between Bank and Steel, Bank wins: a text with both     *)
(* never yields "Metals", and yields "Financials" when no keyword declared *)
(* before Bank occurs in it.                                               *)
C7_SectorFirstMatchWins ==
    pc = "return" =>
        /\ (\A j \in 1..10 : ~C7_Occurs(arg, j)) => ret = Unknown
        /\ \A j \in 1..10 :
              (C7_Occurs(arg, j) /\ \A h \in 1..(j - 1) : ~C7_Occurs(arg, h))
                  => ret = C7_Declared[j][2]
        /\ (C7_Occurs(arg, 3) /\ C7_Occurs(arg, 5)) =>
              /\ ret # C7_Declared[5][2]
              /\ (~C7_Occurs(arg, 1) /\ ~C7_Occurs(arg, 2)) => ret = C7_Declared[3][2]

\* a text where Steel stands before Bank, in other letter cases than the
\* table's, has been classified as Financials
C7_Witness ==
    /\ pc = "return"
    /\ arg = <<"S", "T", "E", "E", "L", "B", "a", "n", "k">>
    /\ ret = <<"F", "i", "n", "a", "n", "c", "i", "a", "l", "s">>

-----------------------------------------------------------------------------
(* SpecDate: extract_date_from_url applied to every URL built from at most *)
(* MaxUrlPieces pieces and to quoted URLs, on each of the days in Todays.  *)

MaxUrlPieces == 5

UrlPieces == {<<"x">>,
              <<"-">>,
              <<"2", "0", "2", "0">>,
              <<"2", "0", "2", "1">>,
              <<"0", "2">>,
              <<"2", "9">>}

UrlExamples == {
    \* "http://x/2023-07-15/filing.pdf"
    <<"h", "t", "t", "p", ":", "/", "/", "x", "/", "2", "0", "2", "3", "-", "0", "7", "-", "1", "5", "/", "f", "i", "l", "i", "n", "g", ".", "p", "d", "f">>,
    \* "http://x/2023/07/15.pdf"
    <<"h", "t", "t", "p", ":", "/", "/", "x", "/", "2", "0", "2", "3", "/", "0", "7", "/", "1", "5", ".", "p", "d", "f">>,
    \* "http://x/AttachLive/1234567890.pdf"
    <<"h", "t", "t", "p", ":", "/", "/", "x", "/", "A", "t", "t", "a", "c", "h", "L", "i", "v", "e", "/", "1", "2", "3", "4", "5", "6", "7", "8", "9", "0", ".", "p", "d", "f">>,
    \* "http://x/filing.pdf"
    <<"h", "t", "t", "p", ":", "/", "/", "x", "/", "f", "i", "l", "i", "n", "g", ".", "p", "d", "f">>}

UrlInputs == {Concat(ps) : ps \in SeqsUpTo(UrlPieces, MaxUrlPieces)} \cup UrlExamples

InitDate ==
    /\ pc = "call"
    /\ arg \in UrlInputs
    /\ ret = <<>>
    /\ BatchIdle

CallDate ==
    /\ pc = "call"
    /\ \E today \in Todays : ret' = [date |-> extract_date_from_url(arg, today), today |-> today]
    /\ pc' = "return"
    /\ UNCHANGED <<arg, BatchVars>>

NextDate == CallDate

SpecDate == InitDate /\ [][NextDate]_vars

-----------------------------------------------------------------------------
(* The claim about extract_date_from_url, checked under SpecDate.          *)

DigitValue(c) == IndexIn(DigitChars, c) - 1

Number(s) == IF Len(s) = 2 THEN 10 * DigitValue(s[1]) + DigitValue(s[2])
             ELSE 1000 * DigitValue(s[1]) + 100 * DigitValue(s[2])
                  + 10 * DigitValue(s[3]) + DigitValue(s[4])

IsLeapYear(y) == y % 4 = 0 /\ (y % 100 # 0 \/ y % 400 = 0)

DaysInMonth(y, m) ==
    IF m = 2 THEN (IF IsLeapYear(y) THEN 29 ELSE 28)
    ELSE IF m \in {4, 6, 9, 11} THEN 30 ELSE 31

\* YYYY-MM-DD naming a day of the calendar
IsCalendarDate(s) ==
    /\ Len(s) = 10
    /\ s[5] = "-" /\ s[8] = "-"
    /\ \A ix \in {1, 2, 3, 4, 6, 7, 9, 10} : s[ix] \in Digits
    /\ Number(SubSeq(s, 6, 7)) \in 1..12
    /\ Number(SubSeq(s, 9, 10)) \in 1..DaysInMonth(Number(SubSeq(s, 1, 4)), Number(SubSeq(s, 6, 7)))

\* the year-month-day patterns of url: <<start, separator, separator>>, each
\* separator "", "-" or "/"
C8_Patterns(url) ==
    {p \in (1..Len(url)) \X {<<>>, <<"-">>, <<"/">>} \X {<<>>, <<"-">>, <<"/">>} :
        LET m == p[1] + 4 + Len(p[2])
            d == m + 2 + Len(p[3])
        IN  /\ d + 1 <= Len(url)
            /\ \A j \in (p[1]..(p[1] + 3)) \cup {m, m + 1, d, d + 1} : url[j] \in Digits
            /\ SubSeq(url, p[1] + 4, m - 1) = p[2]
            /\ SubSeq(url, m + 2, d - 1) = p[3]}

C8_Formatted(url, p) ==
    LET m == p[1] + 4 + Len(p[2])
        d == m + 2 + Len(p[3])
    IN  SubSeq(url, p[1], p[1] + 3) \o <<"-">> \o SubSeq(url, m, m + 1) \o <<"-">> \o SubSeq(url, d, d + 1)

\* the part of C8 about which string is returned
C8_PatternOrToday ==
    pc = "return" =>
        IF C8_Patterns(arg) = {} THEN ret.date = ret.today
        ELSE \E p \in C8_Patterns(arg) :
                /\ \A q \in C8_Patterns(arg) : p[1] <= q[1]
                /\ ret.date = C8_Formatted(arg, p)

(* C8: the filing date is an ISO 8601 date string: the first year-month-   *)
(* day pattern of the URL formatted YYYY-MM-DD, the current date when the  *)
(* URL has no such pattern, and always a real calendar date (month 01-12,  *)
(* day valid for the month).                                               *)
C8_DateIsCalendarDate ==
    /\ C8_PatternOrToday
    /\ pc = "return" => IsCalendarDate(ret.date)

-----------------------------------------------------------------------------
(* SpecPrompt: fetch_pdf_text, then generate_2l_format on what it returned, *)
(* for PDFs of two pages whose text is shorter than, as long as and longer *)
(* than the 4000 characters of the prompt by at most MaxExtra.             *)

MaxExtra == 3

\* a page of n characters, each the last digit of its index
Page(n) == [j \in 1..n |-> DigitChars[(j % 10) + 1]]

\* a page of n characters, all the same letter
Filler(n) == [j \in 1..n |-> "z"]

LongPdfs ==
    {[ok |-> TRUE, pages |-> <<Page(n), Filler(m)>>, exc |-> <<>>] :
        n \in (0..MaxExtra) \cup ((PromptBudget - MaxExtra)..(PromptBudget + MaxExtra)),
        m \in 0..MaxExtra}

InitPrompt ==
    /\ pc = "fetch"
    /\ arg \in LongPdfs
    /\ ret = <<>>
    /\ BatchIdle

CallFetch ==
    /\ pc = "fetch"
    /\ fetched' = <<[ok |-> arg.ok, text |-> fetch_pdf_text(<<>>, arg)]>>
    /\ pc' = "generate"
    /\ UNCHANGED <<df_links, bound, output, df_result, ui, i, log, sent, replies, arg, ret>>

CallGenerate ==
    /\ pc = "generate"
    /\ \E api \in ApiOutcomes :
          /\ sent' = <<Request(fetched[1].text)>>
          /\ ret' = generate_2l_format(fetched[1].text, api)
    /\ pc' = "return"
    /\ UNCHANGED <<df_links, bound, output, df_result, ui, i, log, fetched, replies, arg>>

NextPrompt == CallFetch \/ CallGenerate

SpecPrompt == InitPrompt /\ [][NextPrompt]_vars

-----------------------------------------------------------------------------
(* The claim about the prompt, checked under SpecPrompt.                   *)

(* C9: the document content in the prompt sent to the model is a prefix of *)
(* the extracted text of at most 4000 characters, whatever the length of   *)
(* the text, although fetch_pdf_text returns the text of all pages         *)
(* untruncated.                                                            *)
C9_PromptHoldsBoundedPrefix ==
    /\ pc \in {"generate", "return"} =>
          Len(fetched[1].text) = Len(arg.pages[1]) + Len(arg.pages[2])
    /\ pc = "return" =>
          LET content == sent[1].messages[1].content.content
          IN  /\ Len(sent) = 1
              /\ Len(content) <= 4000
              /\ Len(content) <= Len(fetched[1].text)
              /\ \A j \in 1..Len(content) : content[j] = fetched[1].text[j]

\* a text of more than 4000 characters was fetched whole and summarized
C9_Witness ==
    /\ pc = "return"
    /\ Len(fetched[1].text) > 4000
    /\ Len(sent[1].messages[1].content.content) = 4000

-----------------------------------------------------------------------------
(* The claims about the batch loop, checked under Spec.                    *)

\* the fetch of processed row r failed: an exception, or no text
FetchFailedAt(r) == ~fetched[r].ok \/ fetched[r].text = <<>>

\* the operations the loop called for row r
CalledFor(r) == {log[n].op : n \in {m \in 1..Len(log) : log[m].row = r}}

TaggerOps == {"extract_date_from_url", "extract_company", "guess_sector",
              "extract_symbol", "detect_type"}

(* C1: when the batch loop finishes the output has exactly one row per     *)
(* input row and the r-th output row carries the link of the r-th input    *)
(* row, whatever the fetches and the summaries did; while the loop runs    *)
(* the same holds of the rows handled so far.                              *)
C1_OneRowPerInputInOrder ==
    /\ pc = "loop" =>
          /\ Len(output) = i - 1
          /\ \A r \in 1..Len(output) : output[r][1] = df_links.rows[r]["link"]
    /\ pc = "done" =>
          /\ Len(df_result) = Len(df_links.rows)
          /\ \A r \in 1..Len(df_result) :
                Len(df_result[r]) = 12 /\ df_result[r][1] = df_links.rows[r]["link"]

\* a batch of two different links, the first fetch failed, the second
\* succeeded and its summary failed, has finished
C1_Witness ==
    /\ pc = "done"
    /\ Len(df_links.rows) = 2
    /\ df_links.rows[1]["link"] # df_links.rows[2]["link"]
    /\ ~fetched[1].ok
    /\ fetched[2].ok /\ Len(replies) = 1 /\ ~replies[1].ok
    /\ Len(df_result) = 2

(* C2: for a row whose fetch fails (an exception, or empty text) the row   *)
(* appended is [link, Unknown, Unknown, Unknown, Error, Error] and six     *)
(* Error, no tagger and no generate_2l_format is called for it, and the    *)
(* loop goes on to the next row.                                           *)
C2_FailedFetchGivesSentinelRow ==
    \A r \in 1..Len(fetched) :
        FetchFailedAt(r) =>
            /\ output[r] = <<df_links.rows[r]["link"],
                             <<"U", "n", "k", "n", "o", "w", "n">>,
                             <<"U", "n", "k", "n", "o", "w", "n">>,
                             <<"U", "n", "k", "n", "o", "w", "n">>,
                             <<"E", "r", "r", "o", "r">>,
                             <<"E", "r", "r", "o", "r">>,
                             <<"E", "r", "r", "o", "r">>,
                             <<"E", "r", "r", "o", "r">>,
                             <<"E", "r", "r", "o", "r">>,
                             <<"E", "r", "r", "o", "r">>,
                             <<"E", "r", "r", "o", "r">>,
                             <<"E", "r", "r", "o", "r">>>>
            /\ CalledFor(r) \cap (TaggerOps \cup {"generate_2l_format", "parse_2l"}) = {}
            /\ \A n \in 1..Len(replies) : replies[n].row # r
            /\ Len(sent) = Len(replies)
            /\ pc \in {"loop", "done"} /\ i > r

\* a first row whose PDF had no text and a second row whose fetch raised,
\* followed by nothing else, have been handled
C2_Witness ==
    /\ Len(fetched) = 2
    /\ fetched[1].ok /\ fetched[1].text = <<>>
    /\ ~fetched[2].ok
    /\ Len(output) = 2
    /\ sent = <<>>

(* C3: after every row, processed or failed, the pacing delay runs before  *)
(* the next row is fetched: between the fetches of two consecutive rows    *)
(* there is exactly one time.sleep.                                        *)
C3_OneSleepBetweenFetches ==
    \A a, b \in 1..Len(log) :
        (/\ log[a].op = "fetch_pdf_text" /\ log[b].op = "fetch_pdf_text"
         /\ log[b].row = log[a].row + 1)
            => Cardinality({c \in a..b : log[c].op = "time.sleep"}) = 1

\* the part of C4 about the returned string, the tag cells and the rows after
C4_TagsKeptAfterFailedSummary ==
    \A n \in 1..Len(replies) :
        ~replies[n].ok =>
            LET r == replies[n].row
                link == df_links.rows[r]["link"]
                text == fetched[r].text
            IN  /\ SubSeq(replies[n].text, 1, 5) = <<"E", "r", "r", "o", "r">>
                /\ Len(output[r]) = 12
                /\ TaggerOps \subseteq CalledFor(r)
                /\ output[r][2] = extract_symbol(link, text)
                /\ output[r][3] = extract_company(text)
                /\ output[r][4] = guess_sector(text)
                /\ \E today \in ClockReadings(link) : output[r][5] = extract_date_from_url(link, today)
                /\ output[r][6] = detect_type(text)
                /\ pc \in {"loop", "done"} /\ i > r

(* C4: when the fetch of a row succeeds and its summarization call fails,  *)
(* generate_2l_format returns a failure-marked string, the six summary     *)
(* fields of the row are empty, its five tag fields are the values the     *)
(* heuristics compute from the text and the URL, and the batch goes on.    *)
C4_FailedSummaryKeepsTags ==
    /\ C4_TagsKeptAfterFailedSummary
    /\ \A n \in 1..Len(replies) :
          ~replies[n].ok => \A k \in 7..12 : output[replies[n].row][k] = <<>>

(* C5: when the uploaded table has no 'link' column an error is shown and  *)
(* the run ends: no fetch, no tagger, no summary, no delay, and no output  *)
(* collection or result table, not even an empty one.                      *)
C5_NoLinkColumnNothingRuns ==
    (pc # "upload" /\ "link" \notin df_links.columns) =>
        /\ pc = "error"
        /\ ui = <<"error">>
        /\ log = <<>> /\ fetched = <<>> /\ sent = <<>> /\ replies = <<>>
        /\ bound = {} /\ output = <<>> /\ df_result = <<>>

\* a table of two rows without the column was uploaded
C5_Witness ==
    /\ pc = "error"
    /\ Len(df_links.rows) = 2
    /\ "link" \notin df_links.columns

(* C10: a row gets the sentinel output only if its fetch raised or gave    *)
(* empty text: whenever the fetch returns non-empty extracted text,        *)
(* whatever it starts with, the taggers, the summarizer and the parser are *)
(* called for the row and its row is assembled from their results.         *)
C10_SentinelOnlyIfFetchFailed ==
    \A r \in 1..Len(fetched) :
        ~FetchFailedAt(r) =>
            /\ (TaggerOps \cup {"generate_2l_format", "parse_2l"}) \subseteq CalledFor(r)
            /\ \E n \in 1..Len(replies) :
                  /\ replies[n].row = r
                  /\ \A k \in 1..6 : output[r][6 + k] = parse_2l(replies[n].text)[k]

=============================================================================
